---- MODULE Spec2Model ----
(***************************************************************************)
(* The egress path of libwebsockets, lib/output.c: the protocol write      *)
(* dispatcher lws_write, the raw issuer lws_issue_raw with its truncation  *)
(* buffer, and the plain-socket transport adapter.                         *)
(*                                                                         *)
(* One connection (wsi) on one service thread (pt) is modelled.  Memory is *)
(* modelled by content: a buffer handed to lws_issue_raw is the sequence   *)
(* of bytes at [buf, buf+len) together with the allocation the pointer     *)
(* lies in (base) and its offset there, which is all the aliasing guard    *)
(* reads.  HTTP/2 modes (LWS_WITH_HTTP2, lws_h2_frame_write) are outside   *)
(* the model: mode ranges over the HTTP/1 and WebSocket modes.             *)
(***************************************************************************)
EXTENDS Integers, Sequences, FiniteSets, TLC

VARIABLES
    wsi,    \* struct lws: the connection
    pt,     \* struct lws_context_per_thread
    last,   \* observer: the most recent call, its inputs and what it did
    mon,    \* observer: the byte stream seen at the transport
    budget,   \* number of calls and dispatches the behaviour may still make
    pump,   \* observer: the position and outcome of lws_serve_http_file_fragment
    peers   \* the other connections of the service thread, by name

vars == <<wsi, pt, last, mon, budget, pump, peers>>

----------------------------------------------------------------------------
(* Bounds of the model *)

MaxSteps == 5        \* calls and dispatches in a behaviour of SpecRaw and SpecExt
MaxOps == 3          \* calls and dispatches in a behaviour of Spec
MaxLen == 2          \* longest user payload given to lws_write
MaxPartial == 1      \* the transport accepts 0..MaxPartial bytes, or all offered
MaxRawLen == 24      \* longest buffer handed to lws_issue_raw directly

----------------------------------------------------------------------------
(* Program constants *)

LWS_PRE == 16
LWS_SSL_CAPABLE_ERROR == -1
LWS_SSL_CAPABLE_MORE_SERVICE == -4

\* enum lws_write_protocol: the opcode class in the low 5 bits, flags above
LWS_WRITE_TEXT == 0
LWS_WRITE_BINARY == 1
LWS_WRITE_CONTINUATION == 2
LWS_WRITE_HTTP == 3
LWS_WRITE_CLOSE == 4
LWS_WRITE_PING == 5
LWS_WRITE_PONG == 6
LWS_WRITE_HTTP_FINAL == 7
LWS_WRITE_HTTP_HEADERS == 8
LWS_WRITE_HTTP_HEADERS_CONTINUATION == 9
LWS_WRITE_NO_FIN == 64
LWS_WRITE_H2_STREAM_END == 128

\* enum lws_websocket_opcodes_07: the opcodes on the wire
LWSWSOPC_CONTINUATION == 0
LWSWSOPC_TEXT_FRAME == 1
LWSWSOPC_BINARY_FRAME == 2
LWSWSOPC_CLOSE == 8
LWSWSOPC_PING == 9
LWSWSOPC_PONG == 10

LWSS_HTTP == "LWSS_HTTP"
LWSS_ESTABLISHED == "LWSS_ESTABLISHED"
LWSS_WAITING_TO_SEND_CLOSE_NOTIFICATION == "LWSS_WAITING_TO_SEND_CLOSE_NOTIFICATION"
LWSS_RETURNED_CLOSE_ALREADY == "LWSS_RETURNED_CLOSE_ALREADY"
LWSS_AWAITING_CLOSE_ACK == "LWSS_AWAITING_CLOSE_ACK"
LWSS_FLUSHING_SEND_BEFORE_CLOSE == "LWSS_FLUSHING_SEND_BEFORE_CLOSE"

LWSCM_HTTP_SERVING == "LWSCM_HTTP_SERVING"
LWSCM_WS_SERVING == "LWSCM_WS_SERVING"
LWSCM_WS_CLIENT == "LWSCM_WS_CLIENT"

\* unsigned int arithmetic (trunc_len, trunc_offset and n are unsigned int).
\* A value is kept as its representative in -2^31 .. 2^31-1 modulo 2^32: a
\* subtraction that wraps below zero shows as a negative number.
ToU32(x) == x

NULL == <<>>

----------------------------------------------------------------------------
(* Helpers on byte sequences *)

IsPrefix(a, b) == /\ Len(a) <= Len(b)
                  /\ \A i \in 1..Len(a) : a[i] = b[i]

Drop(s, k) == SubSeq(s, k + 1, Len(s))
Take(s, k) == SubSeq(s, 1, k)

\* a byte of memory that was never written (read only if an index is wrong)
Garbage == -1

\* the len bytes at mem + off
ReadMem(mem, off, len) ==
    [i \in 1..len |-> IF off + i <= Len(mem) THEN mem[off + i] ELSE Garbage]

\* memcpy(dst, src, Len(src)) into an allocation holding `dst`
Memcpy(dst, src) ==
    [i \in 1..(IF Len(dst) > Len(src) THEN Len(dst) ELSE Len(src)) |->
        IF i <= Len(src) THEN src[i] ELSE dst[i]]

\* the bytes of the k-th buffer a caller hands in: every byte is distinct
UserBytes(k, len) == [i \in 1..len |-> (32 * k + i) % 256]

----------------------------------------------------------------------------
(* Transport adapter: lws_ssl_capable_write_no_ssl *)

\* what send() can do with len bytes: take some of them, or fail with errno
SendOutcomes(len) ==
    {[n |-> k, errno |-> "0"] : k \in {j \in 0..len : j <= MaxPartial \/ j = len}}
    \cup {[n |-> -1, errno |-> e] : e \in {"EAGAIN", "EWOULDBLOCK", "EINTR", "EPIPE"}}

lws_ssl_capable_write_no_ssl(snd) ==
    IF snd.n >= 0 THEN snd.n
    ELSE IF snd.errno \in {"EAGAIN", "EWOULDBLOCK", "EINTR"}
         THEN LWS_SSL_CAPABLE_MORE_SERVICE
         ELSE LWS_SSL_CAPABLE_ERROR

----------------------------------------------------------------------------
(* L2: lws_issue_raw *)

\* "limit sending": the number of bytes offered to the transport
RateCapMax(w, len) ==
    LET a == w.protocol.tx_packet_size
        b == w.protocol.rx_buffer_size
        c == w.context.pt_serv_buf_size
        ab == IF a > b THEN a ELSE b
        n1 == (IF ab > c THEN ab ELSE c) + LWS_PRE + 4
    IN IF n1 > len THEN len ELSE n1

RateCap(w, len) ==
    LET n0 == IF w.protocol.tx_packet_size # 0
              THEN w.protocol.tx_packet_size
              ELSE IF w.protocol.rx_buffer_size # 0
                   THEN w.protocol.rx_buffer_size
                   ELSE w.context.pt_serv_buf_size
        n1 == n0 + LWS_PRE + 4
    IN IF n1 > len THEN len ELSE n1

\* buf < trunc_alloc || buf > trunc_alloc + trunc_len + trunc_offset.
\* A pointer into another allocation lies outside the truncation buffer.
OutsideTrunc(w, base, off) ==
    \/ base # "trunc"
    \/ off < 0
    \/ off > w.trunc_len + w.trunc_offset

\* lws_callback_on_writable(wsi)
lws_callback_on_writable(w) == [w EXCEPT !.pollout = TRUE]

\* what one lws_issue_raw call did: the connection afterwards, the value
\* returned, the exit taken, the bytes offered (to the transport, or to the
\* extension that sent them itself) and how many of them were taken
RawResult(w, ret, path) ==
    [w |-> w, ret |-> ret, path |-> path, offer |-> <<>>, acc |-> 0,
     attempted |-> FALSE, tx |-> 0, rearm |-> FALSE, malloc_failed |-> FALSE]

\* a replay got n bytes out: wsi->trunc_offset += n; wsi->trunc_len -= n
AdvanceTruncStale(w, n) == [w EXCEPT !.trunc_len = ToU32(@ - n)]

AdvanceTruncKeepLen(w, n) == [w EXCEPT !.trunc_offset = ToU32(@ + n)]

AdvanceTruncNone(w, n) == w

AdvanceTrunc(w, n) ==
    [w EXCEPT !.trunc_offset = ToU32(@ + n), !.trunc_len = ToU32(@ - n)]

\* a newly truncated send: the remainder buf[n..] is copied to the start of
\* the truncation buffer
NewTruncationWhole(w, data, n) ==
    [w EXCEPT !.trunc_offset = 0,
              !.trunc_len = Len(data) - n,
              !.trunc_alloc = Memcpy(@, Take(data, Len(data) - n))]

NewTruncationKeepOffset(w, data, n) ==
    [w EXCEPT !.trunc_len = Len(data) - n,
              !.trunc_alloc = Memcpy(@, Drop(data, n))]

NewTruncation(w, data, n) ==
    [w EXCEPT !.trunc_offset = 0,
              !.trunc_len = Len(data) - n,
              !.trunc_alloc = Memcpy(@, Drop(data, n))]

\* "something got written, it can have been truncated now"
MarkPendingNever(w) == w

MarkPending(w) == [w EXCEPT !.could_have_pending = TRUE]

\* the code from the label handle_truncated_send on; n bytes went out
handle_truncated_send(w, data, n, io) ==
    LET real_len == Len(data) IN
    IF w.trunc_len # 0
    THEN LET w1 == AdvanceTrunc(w, n)
         IN IF w1.trunc_len = 0
            THEN IF w1.state = LWSS_FLUSHING_SEND_BEFORE_CLOSE
                 THEN RawResult(w1, -1, "close_signal")
                 ELSE [RawResult(lws_callback_on_writable(w1), real_len, "replay_done")
                          EXCEPT !.rearm = TRUE]
            ELSE [RawResult(lws_callback_on_writable(w1), n, "replay_more")
                     EXCEPT !.rearm = TRUE]
    ELSE IF n = real_len
    THEN RawResult(w, n, "clean")
    ELSE LET need == real_len - n
             fresh == w.trunc_alloc = NULL \/ need > w.trunc_alloc_len
         IN IF fresh /\ ~io.malloc_ok
            THEN [RawResult([w EXCEPT !.trunc_alloc = NULL,
                                      !.trunc_alloc_len = need], -1, "no_mem")
                     EXCEPT !.malloc_failed = TRUE]
            ELSE LET w1 == IF fresh
                           THEN [w EXCEPT !.trunc_alloc = [i \in 1..need |-> Garbage],
                                          !.trunc_alloc_len = need]
                           ELSE w
                     w2 == NewTruncation(w1, data, n)
                 IN [RawResult(lws_callback_on_writable(w2), real_len, "absorbed")
                        EXCEPT !.rearm = TRUE]

\* lws_issue_raw(wsi, buf, len): data are the bytes at [buf, buf+len), buf lies
\* at offset off of the allocation base.  io: what the PACKET_TX_DO_SEND
\* extension callback, send() and malloc() answer during this call.
lws_issue_raw(w, base, off, data, io) ==
    LET len == Len(data) IN
    IF w.could_have_pending THEN RawResult(w, -1, "back_to_back")
    ELSE IF len = 0 THEN RawResult(w, 0, "empty")
    ELSE IF w.state = LWSS_FLUSHING_SEND_BEFORE_CLOSE /\ w.trunc_len = 0
    THEN RawResult(w, len, "flush_skip")
    ELSE IF w.trunc_len # 0 /\ OutsideTrunc(w, base, off)
    THEN RawResult(w, -1, "alias")
    ELSE IF io.do_send < 0 THEN RawResult(w, -1, "ext_error")
    ELSE IF io.do_send # 0
    THEN \* handled by the extension: it took the first m bytes itself
         LET r == handle_truncated_send(w, data, io.do_send, io)
         IN [r EXCEPT !.offer = data, !.acc = io.do_send, !.path = "ext_" \o @]
    ELSE LET n0 == RateCap(w, len)
             n1 == lws_ssl_capable_write_no_ssl(io.send)
             w1 == MarkPending(w)
         IN IF n1 = LWS_SSL_CAPABLE_ERROR
            THEN [RawResult([w1 EXCEPT !.socket_is_permanently_unusable = TRUE],
                            -1, "tx_error")
                     EXCEPT !.offer = Take(data, n0), !.attempted = TRUE, !.tx = n1]
            ELSE LET n == IF n1 = LWS_SSL_CAPABLE_MORE_SERVICE THEN 0 ELSE n1
                     r == handle_truncated_send(w1, data, n, io)
                 IN [r EXCEPT !.offer = Take(data, n0), !.acc = n,
                              !.attempted = TRUE, !.tx = n1]

\* the answers the environment can give during one lws_issue_raw call; an
\* answer the call cannot come to ask for is left at its default
QuietIo == [do_send |-> 0, send |-> [n |-> 0, errno |-> "0"], malloc_ok |-> TRUE]

\* malloc is asked only for a new truncation that does not fit the allocation
Mallocs(w, len, n) ==
    IF w.trunc_len = 0 /\ n < len
       /\ (w.trunc_alloc = NULL \/ len - n > w.trunc_alloc_len)
    THEN BOOLEAN ELSE {TRUE}

\* with no extension active lws_ext_cb_active returns 0
DoSendOutcomes(w, len) ==
    IF w.count_act_ext > 0 THEN {-1} \cup {j \in 1..len : j = 1 \/ j = len} ELSE {}

RawIo(w, len) ==
    IF w.could_have_pending \/ len = 0 THEN {QuietIo}
    ELSE UNION {{[QuietIo EXCEPT !.do_send = m, !.malloc_ok = ok] :
                    ok \in Mallocs(w, len, m)} : m \in DoSendOutcomes(w, len)}
         \cup UNION {{[QuietIo EXCEPT !.send = s, !.malloc_ok = ok] :
                    ok \in Mallocs(w, len, IF s.n < 0 THEN 0 ELSE s.n)} :
                  s \in SendOutcomes(RateCap(w, len))}

----------------------------------------------------------------------------
(* L4: lws_write *)

\* bit operations on a write protocol word (wp < 256)
And1f(wp) == wp % 32
And0f(wp) == wp % 16
And3fWhole(wp) == wp

And3f(wp) == wp % 64
Andc0(wp) == (wp \div 64) * 64
HasNoFin(wp) == (wp \div 64) % 2 = 1
OrNoFin(wp) == IF HasNoFin(wp) THEN wp ELSE wp + LWS_WRITE_NO_FIN

RECURSIVE Xor(_, _)
Xor(a, b) ==
    IF a = 0 /\ b = 0 THEN 0
    ELSE (((a % 2) + (b % 2)) % 2) + 2 * Xor(a \div 2, b \div 2)

\* (int)len of a size_t len; a len whose int value is negative is kept as that
\* negative value
ToInt(len) == len

\* lws_state_is_ws(wsi->state)
lws_state_is_ws(state) == state = LWSS_ESTABLISHED

\* the connection's node on the per-thread drain list
ThisWsi == "wsi"

\* "remove us from context draining ext list": unlink the first node that is wsi
RECURSIVE ListRemove(_, _)
ListRemove(list, x) ==
    IF list = <<>> THEN <<>>
    ELSE IF Head(list) = x THEN Tail(list)
    ELSE <<Head(list)>> \o ListRemove(Tail(list), x)

\* the drain replay at the top of lws_write: [w, pt, wp]
DrainReplayPlain(w, p, wp) ==
    IF w.has_ws /\ w.ws.tx_draining_ext /\ lws_state_is_ws(w.state)
    THEN [w |-> [w EXCEPT !.ws.tx_draining_ext = FALSE],
          pt |-> [p EXCEPT !.tx_draining_ext_list = ListRemove(@, ThisWsi)],
          wp |-> LWS_WRITE_CONTINUATION]
    ELSE [w |-> w, pt |-> p, wp |-> wp]

DrainReplay(w, p, wp) ==
    IF w.has_ws /\ w.ws.tx_draining_ext /\ lws_state_is_ws(w.state)
    THEN [w |-> [w EXCEPT !.ws.tx_draining_ext = FALSE],
          pt |-> [p EXCEPT !.tx_draining_ext_list = ListRemove(@, ThisWsi)],
          wp |-> Andc0(w.ws.tx_draining_stashed_wp) + LWS_WRITE_CONTINUATION]
    ELSE [w |-> w, pt |-> p, wp |-> wp]

IsHttpClass(wp1f) ==
    wp1f \in {LWS_WRITE_HTTP, LWS_WRITE_HTTP_FINAL,
              LWS_WRITE_HTTP_HEADERS_CONTINUATION, LWS_WRITE_HTTP_HEADERS}

\* "if not in a state to send ws stuff, then just send nothing"
GateDropsClose(state, wp1f) == ~lws_state_is_ws(state)

GateDrops(state, wp1f) ==
    /\ ~lws_state_is_ws(state)
    /\ \/ /\ state # LWSS_RETURNED_CLOSE_ALREADY
          /\ state # LWSS_WAITING_TO_SEND_CLOSE_NOTIFICATION
          /\ state # LWSS_AWAITING_CLOSE_ACK
       \/ wp1f # LWS_WRITE_CLOSE

\* switch (wp & 0xf) of the header synthesis: the wire opcode, or -1
WsOpcode(wp) ==
    LET c == And0f(wp) IN
    IF c = LWS_WRITE_TEXT THEN LWSWSOPC_TEXT_FRAME
    ELSE IF c = LWS_WRITE_BINARY THEN LWSWSOPC_BINARY_FRAME
    ELSE IF c = LWS_WRITE_CONTINUATION THEN LWSWSOPC_CONTINUATION
    ELSE IF c = LWS_WRITE_CLOSE THEN LWSWSOPC_CLOSE
    ELSE IF c = LWS_WRITE_PING THEN LWSWSOPC_PING
    ELSE IF c = LWS_WRITE_PONG THEN LWSWSOPC_PONG
    ELSE -1

\* the length part of the header: byte 1 and the extended length
LengthBytesShort(len, is_masked_bit) ==
    IF len <= 126
    THEN <<len + is_masked_bit>>
    ELSE <<126 + is_masked_bit, (len \div 256) % 256, len % 256>>

LengthBytes(len, is_masked_bit) ==
    IF len < 126
    THEN <<len + is_masked_bit>>
    ELSE IF len < 65536
    THEN <<126 + is_masked_bit, (len \div 256) % 256, len % 256>>
    ELSE <<127 + is_masked_bit, 0, 0, 0, 0,
           (len \div 16777216) % 256, (len \div 65536) % 256,
           (len \div 256) % 256, len % 256>>

\* case 13 of switch (ietf_spec_revision): the header written before the
\* payload (without the mask nonce) for a payload of len bytes; ok is FALSE
\* for "unknown write opc / wp"
FrameHeader(len, wp, masked7) ==
    LET is_masked_bit == IF masked7 THEN 128 ELSE 0
        opc == WsOpcode(wp)
        n == IF HasNoFin(wp) THEN opc ELSE opc + 128
        bytes == <<n>> \o LengthBytes(len, is_masked_bit)
    IN [ok |-> opc >= 0,
        bytes |-> bytes,
        pre |-> (IF masked7 THEN 4 ELSE 0) + Len(bytes)]

\* the masking loop: dropmask[n] ^= mask[(mask_idx++) & 3]
MaskPayload(payload, mask, mask_idx) ==
    [i \in 1..Len(payload) |-> Xor(payload[i], mask[((mask_idx + i - 1) % 4) + 1])]

\* what one lws_write call did before it reached the lower layer
WriteResult(w, p, ret, path) ==
    [w |-> w, pt |-> p, ret |-> ret, path |-> path, wp |-> 0, pre |-> 0,
     lower |-> FALSE, via_ext_access |-> FALSE, framed |-> <<>>, base |-> "user",
     len |-> 0, orig_len |-> 0, payload |-> <<>>, ext_called |-> FALSE,
     ext_n |-> 0, new_frame |-> FALSE]

\* an extension's answer to LWS_EXT_CB_PAYLOAD_TX: the return value n, whether
\* eff_buf.token still points at the caller's buffer ("buf") or at a buffer
\* of the extension ("ext"), the new token_len and the bytes there
PassThrough(ubuf, len) ==
    [n |-> 0, token |-> "buf", token_len |-> len, out |-> ubuf]

\* a new frame: extensions, stash, header and mask, up to the label send_raw
FrameNew(w0, p0, buf_null, ubuf, orig_len, wp0, io) ==
    LET masked7 == w0.mode = LWSCM_WS_CLIENT
        w1 == [w0 EXCEPT !.ws.clean_buffer = TRUE]
        ext_called == wp0 \notin {LWS_WRITE_PING, LWS_WRITE_PONG, LWS_WRITE_CLOSE}
        e == IF ext_called /\ w0.count_act_ext > 0
             THEN io.ext ELSE PassThrough(ubuf, orig_len)
        drains == ext_called /\ e.n # 0 /\ e.token_len # 0
        w2 == IF drains
              THEN lws_callback_on_writable(
                     [w1 EXCEPT !.ws.tx_draining_ext = TRUE,
                                !.ws.tx_draining_stashed_wp = wp0])
              ELSE w1
        p2 == IF drains
              THEN [p0 EXCEPT !.tx_draining_ext_list = <<ThisWsi>> \o @]
              ELSE p0
        wp2 == IF drains THEN OrNoFin(wp0) ELSE wp0
        unstash == ext_called /\ e.token_len # 0 /\ w2.ws.stashed_write_pending
        w3 == IF unstash THEN [w2 EXCEPT !.ws.stashed_write_pending = FALSE] ELSE w2
        wp3 == IF unstash THEN Andc0(wp2) + w2.ws.stashed_write_type ELSE wp2
        moved == e.token # "buf"
        w4 == IF moved THEN [w3 EXCEPT !.ws.clean_buffer = FALSE] ELSE w3
        len == e.token_len
        payload == e.out
        rev13 == w0.ws.ietf_spec_revision = 13
        h == IF rev13 THEN FrameHeader(len, wp3, masked7)
             ELSE [ok |-> TRUE, bytes |-> <<>>, pre |-> 0]
        w5 == IF masked7
              THEN [w4 EXCEPT !.ws.mask = io.nonce,
                              !.ws.mask_idx = IF rev13 THEN (0 + len) % 256 ELSE 0]
              ELSE w4
        body == IF masked7 /\ rev13
                THEN io.nonce \o MaskPayload(payload, io.nonce, 0)
                ELSE payload
    IN IF ext_called /\ e.n < 0
       THEN [WriteResult(w1, p0, -1, "ext_error") EXCEPT !.ext_called = TRUE]
       ELSE IF moved /\ orig_len # 0 /\ e.token_len = 0
       THEN [WriteResult(
               [w3 EXCEPT !.ws.stashed_write_type =
                             IF w3.ws.stashed_write_pending THEN @ ELSE And3f(wp3),
                          !.ws.stashed_write_pending = TRUE],
               p2, ToInt(orig_len), "stashed") EXCEPT !.ext_called = ext_called]
       ELSE IF buf_null /\ ~moved
       THEN [WriteResult(w4, p2, -1, "null_buf") EXCEPT !.ext_called = ext_called]
       ELSE IF ~h.ok
       THEN [WriteResult(w4, p2, -1, "unknown_opc") EXCEPT !.ext_called = ext_called]
       ELSE IF masked7 /\ io.rng_n # 4
       THEN [WriteResult(w4, p2, -1, "no_nonce") EXCEPT !.ext_called = ext_called]
       ELSE [WriteResult(w5, p2, 0, "send_raw")
                EXCEPT !.wp = wp3, !.pre = h.pre, !.lower = TRUE,
                       !.framed = h.bytes \o body,
                       !.base = IF moved THEN "ext" ELSE "user",
                       !.len = len, !.orig_len = orig_len, !.payload = payload,
                       !.ext_called = ext_called, !.ext_n = e.n,
                       !.new_frame = TRUE]

\* lws_write up to the call of the lower layer
WritePrep(w, p, buf_null, ubuf, len, wp_in, io) ==
    IF w.parent_carries_io
    THEN IF io.parent_cb # 0
         THEN WriteResult(w, p, 1, "parent_refused")
         ELSE WriteResult(w, p, ToInt(len), "parent_ok")
    ELSE IF ToInt(len) < 0
    THEN WriteResult(w, p, -1, "negative_len")
    ELSE LET d == DrainReplay(w, p, wp_in)
             wp == d.wp
             wp1f == And1f(wp)
         IN IF IsHttpClass(wp1f)
            THEN [WriteResult(d.w, d.pt, 0, "send_raw")
                     EXCEPT !.wp = wp, !.lower = TRUE, !.framed = ubuf,
                            !.len = len, !.orig_len = len, !.payload = ubuf]
            ELSE IF GateDrops(d.w.state, wp1f)
            THEN WriteResult(d.w, d.pt, 0, "binned")
            ELSE IF d.w.ws.inside_frame
            THEN \* do_more_inside_frame: no header, no mask applied
                 [WriteResult(d.w, d.pt, 0, "send_raw")
                     EXCEPT !.wp = wp, !.lower = TRUE, !.framed = ubuf,
                            !.len = len, !.orig_len = len, !.payload = ubuf]
            ELSE FrameNew(d.w, d.pt, buf_null, ubuf, len, wp, io)

\* L3, lws_issue_raw_ext_access: a pass-through to lws_issue_raw
lws_issue_raw_ext_access(w, base, data, io) ==
    lws_issue_raw(w, base, 0, data, io)

\* the return value of lws_write after lws_issue_raw_ext_access returned n
ReturnAfterAccess(n, len, pre, orig_len) ==
    IF n <= 0 THEN n
    ELSE IF n = ToInt(len) + pre THEN ToInt(orig_len)
    ELSE n - pre

\* the switch at send_raw: the classes handed straight to lws_issue_raw
DirectToRaw(w, wp1f) ==
    \/ wp1f \in {LWS_WRITE_TEXT, LWS_WRITE_BINARY, LWS_WRITE_CONTINUATION}
          /\ w.h2_stream_carries_ws
    \/ wp1f \in {LWS_WRITE_CLOSE, LWS_WRITE_HTTP, LWS_WRITE_HTTP_FINAL,
                 LWS_WRITE_HTTP_HEADERS, LWS_WRITE_HTTP_HEADERS_CONTINUATION,
                 LWS_WRITE_PONG, LWS_WRITE_PING}

\* lws_write from the label send_raw on: [w, pt, ret, raw]
WriteSend(pr, io) ==
    IF ~pr.lower
    THEN [w |-> pr.w, pt |-> pr.pt, ret |-> pr.ret,
          raw |-> RawResult(pr.w, 0, "none")]
    ELSE IF DirectToRaw(pr.w, And1f(pr.wp))
    THEN LET r == lws_issue_raw(pr.w, pr.base, 0, pr.framed, io.raw)
         IN [w |-> r.w, pt |-> pr.pt, ret |-> r.ret, raw |-> r]
    ELSE LET r == lws_issue_raw_ext_access(pr.w, pr.base, pr.framed, io.raw)
             w1 == [r.w EXCEPT !.ws.inside_frame =
                                  ~(r.ret > 0 /\ r.ret = ToInt(pr.len) + pr.pre)]
         IN [w |-> w1, pt |-> pr.pt,
             ret |-> ReturnAfterAccess(r.ret, pr.len, pr.pre, pr.orig_len),
             raw |-> r]

\* lws_write(wsi, buf, len, wp)
lws_write(w, p, buf_null, ubuf, len, wp, io) ==
    WriteSend(WritePrep(w, p, buf_null, ubuf, len, wp, io), io)

----------------------------------------------------------------------------
(* The file fragment pump: lws_serve_http_file_fragment *)
(* Connections with interpreting or sending_chunked set, and HTTP/2 tx     *)
(* credit, are outside the model.  pt_serv_buf_size is large enough in     *)
(* every modelled connection for poss to stay above zero.                  *)

LWS_H2_FRAME_HEADER_LENGTH == 9

LWSS_HTTP_ISSUING_FILE == "LWSS_HTTP_ISSUING_FILE"

\* the file being served: the byte at offset i, and the n bytes from offset pos
FileByte(i) == 128 + i

FileBytes(pos, n) == [i \in 1..n |-> FileByte(pos + i - 1)]

\* "%llu"
RECURSIVE Decimal(_)
Decimal(x) ==
    IF x < 10 THEN <<48 + x>> ELSE Decimal(x \div 10) \o <<48 + (x % 10)>>

\* "_lws\x0d\x0a"
Boundary == <<95, 108, 119, 115, 13, 10>>

\* "_lws\x0d\x0a" "Content-Type: %s\x0d\x0a"
\* "Content-Range: bytes %llu-%llu/%llu\x0d\x0a" "\x0d\x0a"
PartHeader(ct, start, end, extent) ==
    Boundary
    \o <<67, 111, 110, 116, 101, 110, 116, 45, 84, 121, 112, 101, 58, 32>>
    \o ct \o <<13, 10>>
    \o <<67, 111, 110, 116, 101, 110, 116, 45, 82, 97, 110, 103, 101, 58, 32,
         98, 121, 116, 101, 115, 32>>
    \o Decimal(start) \o <<45>> \o Decimal(end) \o <<47>> \o Decimal(extent)
    \o <<13, 10>>
    \o <<13, 10>>

\* lws_snprintf(str, size, ...) for the formatted text: at most size - 1
\* characters and the terminating NUL are stored at str; the value returned
\* is the length of the text, or size if the text did not fit
lws_snprintf(size, text) ==
    IF size = 0 THEN [ret |-> 0, bytes |-> <<>>]
    ELSE IF Len(text) >= size
    THEN [ret |-> size, bytes |-> Take(text, size - 1) \o <<0>>]
    ELSE [ret |-> Len(text), bytes |-> text \o <<0>>]

\* lws_ranges_next(&wsi->http.range): the next range of the request, if any
lws_ranges_next(rg) ==
    IF rg.rest = <<>> THEN [ret |-> 0, range |-> rg]
    ELSE [ret |-> 1,
          range |-> [rg EXCEPT !.start = Head(rg.rest)[1],
                               !.end = Head(rg.rest)[2],
                               !.rest = Tail(rg.rest)]]

\* what lws_vfs_file_read can do
ReadOutcomes == {"full", "short", "none", "error"}

\* the number of bytes lws_vfs_file_read stores for a request of poss bytes
ReadAmount(w, poss, rd) ==
    LET left == w.http.filelen - w.http.fop_fd.pos
        avail == IF left < 0 THEN 0 ELSE left
        full == IF poss < avail THEN poss ELSE avail
    IN IF rd = "none" THEN 0
       ELSE IF rd = "short" /\ full > 1 THEN 1 ELSE full

\* what one pass of the loop did: the connection afterwards, whether the
\* function returned and what, the buffer given to lws_write if it was called
PumpResult(w, p, returned, ret, path) ==
    [w |-> w, pt |-> p, returned |-> returned, ret |-> ret, path |-> path,
     wrote |-> FALSE, data |-> <<>>, n |-> 0, m |-> 0, wp |-> 0,
     completion |-> FALSE, raw |-> RawResult(w, 0, "none")]

\* the label file_had_it
file_had_it(r, path) ==
    [r EXCEPT !.w.http.fop_fd.open = FALSE, !.returned = TRUE, !.ret = -1,
              !.path = path]

\* the label all_sent
all_sent(r, finished, io) ==
    IF (r.w.trunc_len = 0 /\ r.w.http.filepos >= r.w.http.filelen) \/ finished
    THEN [r EXCEPT !.w.state = LWSS_HTTP,
                   !.w.http.fop_fd.open = FALSE,
                   !.returned = TRUE,
                   !.completion = TRUE,
                   !.ret = IF io.cb < 0
                           THEN (IF r.w.http2_substream THEN 1 ELSE -1)
                           ELSE 1,
                   !.path = "completed"]
    ELSE r

\* a > b for lws_filepos_t values (unsigned, 64 bits): a value that wrapped
\* below zero is kept as its negative representative and is above every
\* value that did not
FileposGt(a, b) == IF (a < 0) = (b < 0) THEN a > b ELSE a < 0

\* the sizing decisions: poss for a buffer that already holds n header bytes
PumpPoss(w, n) ==
    LET p0 == w.context.pt_serv_buf_size - n - LWS_H2_FRAME_HEADER_LENGTH
        p1 == IF w.http.tx_content_length # 0 /\ p0 > w.http.tx_content_remain
              THEN w.http.tx_content_remain ELSE p0
        p2 == IF w.protocol.tx_packet_size # 0 /\ p1 > w.protocol.tx_packet_size
              THEN w.protocol.tx_packet_size ELSE p1
        p3 == IF w.http.range.count_ranges > 1 THEN p2 - 7 ELSE p2
    IN IF w.http.range.count_ranges # 0 /\ FileposGt(p3, w.http.range.budget)
       THEN w.http.range.budget ELSE p3

\* the bookkeeping after lws_write accepted a buffer holding amount file
\* bytes: [w, finished]
PumpAccount(w, amount) ==
    LET w1 == [w EXCEPT !.http.filepos = @ + amount] IN
    IF w1.http.range.count_ranges >= 1
    THEN LET w2 == [w1 EXCEPT !.http.range.budget = @ - amount] IN
         IF w2.http.range.budget = 0
         THEN LET nx == lws_ranges_next(
                          [w2.http.range EXCEPT !.inside = FALSE,
                                                !.send_ctr = @ + 1])
              IN [w |-> [w2 EXCEPT !.http.range = nx.range],
                  finished |-> nx.ret < 1]
         ELSE [w |-> w2, finished |-> FALSE]
    ELSE [w |-> w1, finished |-> FALSE]

\* F applied to the value of v, v being evaluated once
Once(v, F(_)) == CHOOSE y \in {F(x) : x \in {v}} : TRUE

\* a pass that produces a payload, up to the call of lws_write: range entry,
\* sizing, read, trailing boundary
PumpRead(w0, io) ==
    LET rg0 == w0.http.range
        entering == rg0.count_ranges # 0 /\ ~rg0.inside
        hdr == IF entering /\ rg0.count_ranges > 1
               THEN lws_snprintf(
                      w0.context.pt_serv_buf_size - LWS_H2_FRAME_HEADER_LENGTH,
                      PartHeader(w0.http.multipart_content_type, rg0.start,
                                 rg0.end, rg0.extent))
               ELSE [ret |-> 0, bytes |-> <<>>]
        w1 == IF entering
              THEN [w0 EXCEPT !.http.fop_fd.pos = @ + (rg0.start - w0.http.filepos),
                              !.http.filepos = rg0.start,
                              !.http.range.budget = rg0.end - rg0.start + 1,
                              !.http.range.inside = TRUE]
              ELSE w0
        poss == PumpPoss(w1, hdr.ret)
        amount == ReadAmount(w1, poss, io.rd)
        rg == w1.http.range
        tail == IF /\ rg.send_ctr + 1 = rg.count_ranges
                   /\ rg.count_ranges > 1
                   /\ rg.budget - amount = 0
                THEN lws_snprintf(6, Boundary)
                ELSE [ret |-> 0, bytes |-> <<>>]
    IN IF entering /\ ~io.seek_ok
       THEN [path |-> "seek_failed", w |-> w0, amount |-> 0, n0 |-> 0, n |-> 0,
             data |-> <<>>, wp |-> 0]
       ELSE IF io.rd = "error"
       THEN [path |-> "read_failed", w |-> w1, amount |-> 0, n0 |-> 0, n |-> 0,
             data |-> <<>>, wp |-> 0]
       ELSE [path |-> "read",
             w |-> [w1 EXCEPT !.http.fop_fd.pos = @ + amount],
             amount |-> amount,
             n0 |-> hdr.ret + amount,
             n |-> hdr.ret + amount + tail.ret,
             data |-> Take(hdr.bytes, hdr.ret)
                      \o FileBytes(w1.http.fop_fd.pos, amount)
                      \o Take(tail.bytes, tail.ret),
             wp |-> IF w1.http.filepos + amount = w1.http.filelen
                    THEN LWS_WRITE_HTTP_FINAL ELSE LWS_WRITE_HTTP]

\* the pass after lws_write returned wr for the buffer rd
PumpWritten(rd, wr, io) ==
    LET m == wr.ret
        acc == PumpAccount(wr.w, rd.amount)
        wrote == [PumpResult(wr.w, wr.pt, FALSE, 0, "wrote")
                     EXCEPT !.wrote = TRUE, !.data = rd.data, !.n = rd.n,
                            !.m = m, !.wp = rd.wp, !.raw = wr.raw]
    IN IF m < 0
       THEN file_had_it(wrote, "write_failed")
       ELSE IF acc.finished
       THEN all_sent([wrote EXCEPT !.w = acc.w], TRUE, io)
       ELSE IF m # rd.n /\ ~io.seek_ok
       THEN file_had_it([wrote EXCEPT !.w = acc.w], "seek_failed")
       ELSE all_sent(
              [wrote EXCEPT !.w = [acc.w EXCEPT !.http.fop_fd.pos =
                                                   IF m # rd.n THEN @ + (m - rd.n)
                                                   ELSE @]],
              FALSE, io)

\* the pass from the buffer rd on: lws_write if there is anything to send
PumpWrite(rd, p, io) ==
    IF rd.path # "read"
    THEN file_had_it(PumpResult(rd.w, p, FALSE, 0, "none"), rd.path)
    ELSE IF rd.n0 = 0
    THEN all_sent(PumpResult(rd.w, p, FALSE, 0, "nothing_read"), FALSE, io)
    ELSE Once(lws_write(rd.w, p, FALSE, rd.data, rd.n, rd.wp,
                        [parent_cb |-> 0, ext |-> PassThrough(rd.data, rd.n),
                         rng_n |-> 4, nonce |-> <<0, 0, 0, 0>>, raw |-> io.raw]),
              LAMBDA wr : PumpWritten(rd, wr, io))

\* a pass that produces a payload
PumpPayload(w0, p, io) ==
    Once(PumpRead(w0, io), LAMBDA rd : PumpWrite(rd, p, io))

\* one pass of while (!lws_send_pipe_choked(wsi)), from the test of the
\* loop condition to the end of the body
PumpPass(w, p, io) ==
    IF io.choked
    THEN PumpResult(lws_callback_on_writable(w), p, TRUE, 0, "choked")
    ELSE IF w.trunc_len # 0
    THEN LET data == ReadMem(w.trunc_alloc, w.trunc_offset, w.trunc_len)
             r == lws_issue_raw(w, "trunc", w.trunc_offset, data, io.raw)
             res == [PumpResult(r.w, p, FALSE, 0, "replayed")
                        EXCEPT !.data = data, !.raw = r]
         IN IF r.ret < 0 THEN file_had_it(res, "replay_failed") ELSE res
    ELSE IF w.http.filepos = w.http.filelen
    THEN all_sent(PumpResult(w, p, FALSE, 0, "eof"), FALSE, io)
    ELSE PumpPayload(w, p, io)

----------------------------------------------------------------------------
(* Observers *)

\* the last call: first what lws_issue_raw did (if it was reached), then what
\* lws_write was asked and did before it
NoLast ==
    [op |-> "init", fresh |-> FALSE, len |-> 0, data |-> <<>>, ret |-> 0,
     path |-> "none", offer |-> <<>>, acc |-> 0, attempted |-> FALSE, tx |-> 0,
     rearm |-> FALSE, malloc_failed |-> FALSE,
     wp_in |-> 0, wp |-> 0, buf_null |-> FALSE, ubuf |-> <<>>, ulen |-> 0,
     wpath |-> "none", wret |-> 0, pre |-> 0, lower |-> FALSE,
     new_frame |-> FALSE, payload |-> <<>>, ext_called |-> FALSE, ext_n |-> 0,
     ext_token |-> "buf", ext_token_len |-> 0, who |-> ThisWsi,
     parent_cb |-> 0, rng_n |-> 4, nonce |-> <<>>]

\* the record of a call that went through lws_issue_raw with result r
LastRaw(op, fresh, data, r) ==
    [NoLast EXCEPT !.op = op, !.fresh = fresh, !.len = Len(data), !.data = data,
                   !.ret = r.ret, !.path = r.path, !.offer = r.offer,
                   !.acc = r.acc, !.attempted = r.attempted, !.tx = r.tx,
                   !.rearm = r.rearm, !.malloc_failed = r.malloc_failed]

\* the record of an lws_write call: a are its arguments, io the environment's
\* answers, pr the call up to the lower layer and r its outcome
LastWrite(a, io, pr, r) ==
    [LastRaw("write", pr.lower, pr.framed, r.raw)
        EXCEPT !.wp_in = a.wp, !.wp = pr.wp, !.buf_null = a.buf_null,
               !.ubuf = a.ubuf, !.ulen = a.len, !.wpath = pr.path,
               !.wret = r.ret, !.pre = pr.pre, !.lower = pr.lower,
               !.new_frame = pr.new_frame, !.payload = pr.payload,
               !.ext_called = pr.ext_called, !.ext_n = pr.ext_n,
               !.ext_token = IF pr.ext_called /\ pr.w.count_act_ext > 0
                             THEN io.ext.token ELSE "buf",
               !.ext_token_len = IF pr.ext_called /\ pr.w.count_act_ext > 0
                                 THEN io.ext.token_len ELSE 0,
               !.parent_cb = io.parent_cb, !.rng_n = io.rng_n,
               !.nonce = io.nonce]

NoMon ==
    [owed |-> <<>>,          \* bytes of accepted calls nobody has taken yet
     ok |-> TRUE,            \* every byte taken so far was the head of owed
     rejected |-> FALSE,     \* some call failed (other than the close signal)
     dropped |-> FALSE,      \* an accepted buffer was offered to nobody
     flush_write |-> FALSE,  \* a new buffer was handed in while flushing
     chain |-> 0]            \* frames framed so far for the message being drained

\* the stream observer after a call: w is the connection before the call,
\* fresh tells a new buffer from a replay of the truncation buffer
MonStep(m, w, fresh, data, r) ==
    LET taken == Take(r.offer, r.acc)
        close_signal == ~fresh /\ r.ret < 0 /\ Len(data) > 0 /\ r.acc = Len(data)
        skipped == fresh /\ r.ret >= 0 /\ Len(data) > 0 /\ r.offer = <<>>
        handed == IF fresh /\ r.ret >= 0 /\ ~skipped THEN data ELSE <<>>
        owed1 == m.owed \o handed
        inorder == IsPrefix(taken, owed1)
    IN [owed |-> IF inorder THEN Drop(owed1, Len(taken)) ELSE owed1,
        ok |-> m.ok /\ inorder,
        rejected |-> m.rejected \/ (r.ret < 0 /\ ~close_signal),
        dropped |-> m.dropped \/ skipped,
        flush_write |-> m.flush_write
                        \/ (fresh /\ Len(data) > 0
                            /\ w.state = LWSS_FLUSHING_SEND_BEFORE_CLOSE),
        chain |-> m.chain]

\* the file pump as seen from the event loop
NoPump ==
    [pc |-> "idle",          \* "loop" while an invocation is inside its loop
     returned |-> FALSE,     \* the last invocation has returned ret
     ret |-> 0,
     path |-> "none",        \* the exit the last pass took
     request |-> <<>>,       \* the byte ranges asked for, in request order
     handed |-> <<>>,        \* the buffers lws_write accepted, in order
     completions |-> 0,      \* invocations of LWS_CALLBACK_HTTP_FILE_COMPLETION
     writes |-> 0]           \* lws_write calls of the invocation (counted to 2)

----------------------------------------------------------------------------
(* The connection after construction *)

SizeConfigs ==
    {[tx_packet_size |-> 0, rx_buffer_size |-> 0, pt_serv_buf_size |-> 0],
     [tx_packet_size |-> 0, rx_buffer_size |-> 0, pt_serv_buf_size |-> 3],
     [tx_packet_size |-> 0, rx_buffer_size |-> 2, pt_serv_buf_size |-> 3],
     [tx_packet_size |-> 1, rx_buffer_size |-> 2, pt_serv_buf_size |-> 3]}

NewWs ==
    [inside_frame |-> FALSE, clean_buffer |-> TRUE, tx_draining_ext |-> FALSE,
     tx_draining_stashed_wp |-> 0, stashed_write_pending |-> FALSE,
     stashed_write_type |-> 0, mask |-> <<0, 0, 0, 0>>, mask_idx |-> 0,
     ietf_spec_revision |-> 13]

\* wsi->http before a file is being served
NewHttp ==
    [filepos |-> 0, filelen |-> 0, fop_fd |-> [open |-> FALSE, pos |-> 0],
     tx_content_length |-> 0, tx_content_remain |-> 0,
     multipart_content_type |-> <<>>,
     range |-> [start |-> 0, end |-> 0, extent |-> 0, budget |-> 0,
                inside |-> FALSE, send_ctr |-> 0, count_ranges |-> 0,
                rest |-> <<>>]]

NewWsi(mode, state, sz) ==
    [mode |-> mode, state |-> state, parent_carries_io |-> FALSE,
     could_have_pending |-> FALSE, socket_is_permanently_unusable |-> FALSE,
     pollout |-> FALSE,
     trunc_alloc |-> NULL, trunc_alloc_len |-> 0, trunc_offset |-> 0,
     trunc_len |-> 0,
     has_ws |-> mode # LWSCM_HTTP_SERVING, count_act_ext |-> 0,
     h2_stream_carries_ws |-> FALSE, http2_substream |-> FALSE,
     http |-> NewHttp,
     protocol |-> [tx_packet_size |-> sz.tx_packet_size,
                   rx_buffer_size |-> sz.rx_buffer_size],
     context |-> [pt_serv_buf_size |-> sz.pt_serv_buf_size],
     ws |-> NewWs]

NewPt == [tx_draining_ext_list |-> <<>>]

\* no other connection on the service thread
NoPeers == <<>>

----------------------------------------------------------------------------
(* Operations on the raw issuer *)

RawLens == {0, 1, 2, MaxRawLen}

\* a caller hands a new buffer to lws_issue_raw
IssueRawCall ==
    /\ budget > 0
    /\ \E len \in RawLens :
         LET data == UserBytes(budget, len) IN
         \E io \in RawIo(wsi, len) :
            LET r == lws_issue_raw(wsi, "user", 0, data, io) IN
            /\ wsi' = r.w
            /\ last' = LastRaw("issue", TRUE, data, r)
            /\ mon' = MonStep(mon, wsi, TRUE, data, r)
    /\ budget' = budget - 1
    /\ UNCHANGED <<pt, pump, peers>>

\* The event loop dispatches writability: back-to-back detection is reset and
\* a pending truncation is replayed before anything else, as
\* lws_issue_raw(wsi, wsi->trunc_alloc + wsi->trunc_offset, wsi->trunc_len).
\* The application may ask for the callback at any time, so a dispatch can
\* follow any call.
Writable ==
    /\ budget > 0
    /\ LET w0 == [wsi EXCEPT !.could_have_pending = FALSE, !.pollout = FALSE] IN
       IF w0.trunc_len # 0
       THEN LET data == ReadMem(w0.trunc_alloc, w0.trunc_offset, w0.trunc_len) IN
            \E io \in RawIo(w0, Len(data)) :
               LET r == lws_issue_raw(w0, "trunc", w0.trunc_offset, data, io) IN
               /\ wsi' = r.w
               /\ last' = LastRaw("writable", FALSE, data, r)
               /\ mon' = MonStep(mon, w0, FALSE, data, r)
       ELSE /\ wsi' = w0
            /\ last' = [NoLast EXCEPT !.op = "writable"]
            /\ mon' = mon
    /\ budget' = budget - 1
    /\ UNCHANGED <<pt, pump, peers>>

\* The connection is asked to close while a truncated send is pending: the
\* close waits for the truncation buffer to drain.
StartFlushingBeforeClose ==
    /\ wsi.trunc_len # 0
    /\ wsi.state # LWSS_FLUSHING_SEND_BEFORE_CLOSE
    /\ wsi' = [wsi EXCEPT !.state = LWSS_FLUSHING_SEND_BEFORE_CLOSE]
    /\ last' = [NoLast EXCEPT !.op = "close"]
    /\ UNCHANGED <<pt, mon, budget, pump, peers>>

InitRaw ==
    /\ \E sz \in SizeConfigs :
          wsi = [NewWsi(LWSCM_HTTP_SERVING, LWSS_HTTP, sz) EXCEPT !.count_act_ext = 1]
    /\ pt = NewPt
    /\ last = NoLast
    /\ mon = NoMon
    /\ budget = MaxSteps
    /\ pump = NoPump
    /\ peers = NoPeers

NextRaw == IssueRawCall \/ Writable \/ StartFlushingBeforeClose

SpecRaw == InitRaw /\ [][NextRaw]_vars

----------------------------------------------------------------------------
(* The raw issuer under an event loop that serves every rearm *)

\* new buffers a caller hands in during one behaviour
MaxLiveCalls == 2

\* The event loop dispatches writability to a connection that asked for it
\* with lws_callback_on_writable: back-to-back detection is reset and a pending
\* truncation is replayed, as in Writable.  The dispatch costs the caller
\* nothing: it is repeated for as long as the connection keeps asking.
LiveDispatch ==
    /\ wsi.pollout
    /\ UNCHANGED <<pt, budget, pump, peers>>
    /\ LET w0 == [wsi EXCEPT !.could_have_pending = FALSE, !.pollout = FALSE] IN
       IF w0.trunc_len # 0
       THEN \E data \in {ReadMem(w0.trunc_alloc, w0.trunc_offset, w0.trunc_len)} :
            \E io \in RawIo(w0, Len(data)) :
            \E r \in {lws_issue_raw(w0, "trunc", w0.trunc_offset, data, io)} :
               /\ wsi' = r.w
               /\ last' = LastRaw("writable", FALSE, data, r)
               /\ mon' = MonStep(mon, w0, FALSE, data, r)
       ELSE /\ wsi' = w0
            /\ last' = [NoLast EXCEPT !.op = "writable"]
            /\ mon' = mon

\* a dispatch whose replay got at least one byte out
LiveProgress == LiveDispatch /\ wsi'.trunc_len < wsi.trunc_len

InitLive ==
    /\ \E sz \in SizeConfigs :
          wsi = [NewWsi(LWSCM_HTTP_SERVING, LWSS_HTTP, sz) EXCEPT !.count_act_ext = 1]
    /\ pt = NewPt
    /\ last = NoLast
    /\ mon = NoMon
    /\ budget = MaxLiveCalls
    /\ pump = NoPump
    /\ peers = NoPeers

NextLive == IssueRawCall \/ LiveDispatch \/ StartFlushingBeforeClose

\* The event loop serves every connection that asked for writability (weak
\* fairness of the dispatch), and the transport does not refuse forever: of
\* the replays attempted again and again, some get a byte out (strong
\* fairness of the dispatch that makes progress).
SpecLive ==
    /\ InitLive
    /\ [][NextLive]_vars
    /\ WF_vars(LiveDispatch)
    /\ SF_vars(LiveProgress)

----------------------------------------------------------------------------
(* Operations on lws_write *)

SomeSize == CHOOSE z \in SizeConfigs : z.tx_packet_size # 0

\* the connections of Spec: no extension is active
WriteConfigs ==
    {NewWsi(LWSCM_WS_SERVING, LWSS_ESTABLISHED, SomeSize),
     NewWsi(LWSCM_WS_CLIENT, LWSS_ESTABLISHED, SomeSize),
     NewWsi(LWSCM_HTTP_SERVING, LWSS_HTTP, SomeSize),
     [NewWsi(LWSCM_HTTP_SERVING, LWSS_HTTP, SomeSize) EXCEPT !.parent_carries_io = TRUE]}

\* the connections of SpecExt: a server connection with an active extension
ExtConfigs ==
    {[NewWsi(LWSCM_WS_SERVING, LWSS_ESTABLISHED, SomeSize) EXCEPT !.count_act_ext = 1]}

\* the wp values of a call
WriteWps ==
    {c + f : c \in {LWS_WRITE_TEXT, LWS_WRITE_BINARY, LWS_WRITE_CONTINUATION},
             f \in {0, LWS_WRITE_NO_FIN}}
    \cup {LWS_WRITE_CLOSE, LWS_WRITE_PING, LWS_WRITE_PONG,
          LWS_WRITE_PING + LWS_WRITE_NO_FIN,
          LWS_WRITE_HTTP, LWS_WRITE_HTTP_FINAL, LWS_WRITE_HTTP_HEADERS,
          LWS_WRITE_HTTP_HEADERS_CONTINUATION,
          LWS_WRITE_HTTP_FINAL + LWS_WRITE_H2_STREAM_END}

ExtWriteWps ==
    {LWS_WRITE_TEXT, LWS_WRITE_TEXT + LWS_WRITE_NO_FIN,
     LWS_WRITE_BINARY + LWS_WRITE_H2_STREAM_END, LWS_WRITE_PING}

\* the arguments of the k-th call: buf (NULL or the bytes there), len and wp;
\* a len whose int value is negative is -1, and the library's own drain replay
\* is lws_write(wsi, NULL, 0, LWS_WRITE_CONTINUATION)
WriteArgs(k) ==
    {[buf_null |-> FALSE, ubuf |-> UserBytes(k, l), len |-> l, wp |-> wp] :
        l \in {0, MaxLen}, wp \in WriteWps}
    \cup {[buf_null |-> FALSE, ubuf |-> <<>>, len |-> -1, wp |-> wp] :
        wp \in {LWS_WRITE_TEXT, LWS_WRITE_HTTP}}
    \cup {[buf_null |-> TRUE, ubuf |-> <<>>, len |-> 0, wp |-> LWS_WRITE_CONTINUATION]}

ExtWriteArgs(k) ==
    {[buf_null |-> FALSE, ubuf |-> UserBytes(k, MaxLen), len |-> MaxLen, wp |-> wp] :
        wp \in ExtWriteWps}
    \cup {[buf_null |-> TRUE, ubuf |-> <<>>, len |-> 0, wp |-> LWS_WRITE_CONTINUATION]}

\* the bytes an extension puts into its own buffer during the k-th call
ExtBytes(k, len) == [i \in 1..len |-> (32 * k + 16 + i) % 256]

\* what the active extension can answer to LWS_EXT_CB_PAYLOAD_TX: nothing
\* changed, an error, or output in a buffer of its own with (n = 1) or without (n = 0) more to come
ExtOutcomes(k, a) ==
    {PassThrough(a.ubuf, a.len)}
    \cup {[PassThrough(a.ubuf, a.len) EXCEPT !.n = -1]}
    \cup {[n |-> n, token |-> "ext", token_len |-> l, out |-> ExtBytes(k, l)] :
            n \in {0, 1}, l \in {0, 1}}

Nonce == <<161, 178, 195, 212>>

DefaultIo(a) ==
    [parent_cb |-> 0, ext |-> PassThrough(a.ubuf, a.len), rng_n |-> 4,
     nonce |-> Nonce, raw |-> QuietIo]

\* the environment's answers before the lower layer is reached; an answer the
\* call cannot come to ask for is left at its default
PrepIo(w, p, k, a) ==
    LET probe == WritePrep(w, p, a.buf_null, a.ubuf, a.len, a.wp, DefaultIo(a)) IN
    {[DefaultIo(a) EXCEPT !.parent_cb = c, !.ext = e, !.rng_n = g] :
        c \in (IF w.parent_carries_io THEN {0, 1} ELSE {0}),
        e \in (IF probe.ext_called /\ w.count_act_ext > 0
               THEN ExtOutcomes(k, a) ELSE {PassThrough(a.ubuf, a.len)}),
        g \in (IF w.mode = LWSCM_WS_CLIENT /\ (probe.new_frame \/ probe.ext_called)
               THEN {4, 3} ELSE {4})}

\* lws_write(wsi, buf, len, wp) with the arguments a and the answers io
WriteCall(a, io) ==
    LET pr == WritePrep(wsi, pt, a.buf_null, a.ubuf, a.len, a.wp, io)
        r == lws_write(wsi, pt, a.buf_null, a.ubuf, a.len, a.wp, io)
    IN /\ wsi' = r.w
       /\ pt' = r.pt
       /\ last' = LastWrite(a, io, pr, r)
       /\ mon' = [(IF pr.lower THEN MonStep(mon, pr.w, TRUE, pr.framed, r.raw) ELSE mon)
                    EXCEPT !.chain = IF ~pr.new_frame THEN @
                                     ELSE IF wsi.ws.tx_draining_ext THEN @ + 1 ELSE 1]
       /\ budget' = budget - 1
       /\ UNCHANGED <<pump, peers>>

\* the answers of the lower layer's environment to the call a with answers pio
LowerIo(a, pio) ==
    LET pr == WritePrep(wsi, pt, a.buf_null, a.ubuf, a.len, a.wp, pio) IN
    IF pr.lower THEN RawIo(pr.w, Len(pr.framed)) ELSE {QuietIo}

\* the transport takes all it is offered, or nothing for now
WholeOrNothing(ios) ==
    {io \in ios : /\ io.do_send = 0 /\ io.malloc_ok
                  /\ io.send.errno \in {"0", "EAGAIN"}
                  /\ io.send.n \notin 0..MaxPartial}
    \cup {io \in ios : io = QuietIo}

\* the application calls lws_write
Write ==
    /\ budget > 0
    /\ \E a \in WriteArgs(budget) :
       \E pio \in PrepIo(wsi, pt, budget, a) :
       \E rio \in LowerIo(a, pio) :
          WriteCall(a, [pio EXCEPT !.raw = rio])

\* the application, or the library for a drain replay, calls lws_write on a
\* connection with an active extension
ExtWrite ==
    /\ budget > 0
    /\ \E a \in ExtWriteArgs(budget) :
       \E pio \in PrepIo(wsi, pt, budget, a) :
       \E rio \in WholeOrNothing(LowerIo(a, pio)) :
          WriteCall(a, [pio EXCEPT !.raw = rio])

\* The closing handshake begins: the connection leaves LWSS_ESTABLISHED for
\* one of the states in which only a CLOSE frame may still be written.
CloseHandshake ==
    /\ wsi.state = LWSS_ESTABLISHED
    /\ \E s \in {LWSS_RETURNED_CLOSE_ALREADY,
                 LWSS_WAITING_TO_SEND_CLOSE_NOTIFICATION,
                 LWSS_AWAITING_CLOSE_ACK} :
          wsi' = [wsi EXCEPT !.state = s]
    /\ last' = [NoLast EXCEPT !.op = "close"]
    /\ UNCHANGED <<pt, mon, budget, pump, peers>>

Init ==
    /\ wsi \in WriteConfigs
    /\ pt = NewPt
    /\ last = NoLast
    /\ mon = NoMon
    /\ budget = MaxOps
    /\ pump = NoPump
    /\ peers = NoPeers

Next == Write \/ Writable \/ CloseHandshake \/ StartFlushingBeforeClose

Spec == Init /\ [][Next]_vars

\* the payload lengths and wp values the header synthesis is applied to
HdrLens ==
    {0, 1, 125, 126, 127, 255, 256, 65535, 65536, 65537, 70000, 16777216, 2147483647}

HdrWps ==
    {c + f : c \in {LWS_WRITE_TEXT, LWS_WRITE_BINARY, LWS_WRITE_CONTINUATION,
                    LWS_WRITE_CLOSE, LWS_WRITE_PING, LWS_WRITE_PONG},
             f \in {0, LWS_WRITE_NO_FIN, LWS_WRITE_H2_STREAM_END}}

\* the header synthesis of lws_write for a payload of any length
FrameHeaderCall ==
    /\ budget > 0
    /\ \E len \in HdrLens, wp \in HdrWps :
          LET h == FrameHeader(len, wp, wsi.mode = LWSCM_WS_CLIENT) IN
          last' = [NoLast EXCEPT !.op = "header", !.ulen = len, !.wp_in = wp,
                                 !.wp = wp, !.pre = h.pre, !.data = h.bytes,
                                 !.len = Len(h.bytes),
                                 !.wret = IF h.ok THEN 0 ELSE -1]
    /\ budget' = budget - 1
    /\ UNCHANGED <<wsi, pt, mon, pump, peers>>

InitHdr ==
    /\ wsi \in {w \in WriteConfigs : w.has_ws}
    /\ pt = NewPt
    /\ last = NoLast
    /\ mon = NoMon
    /\ budget = 1
    /\ pump = NoPump
    /\ peers = NoPeers

NextHdr == FrameHeaderCall \/ Write

SpecHdr == InitHdr /\ [][NextHdr]_vars

InitExt ==
    /\ wsi \in ExtConfigs
    /\ pt = NewPt
    /\ last = NoLast
    /\ mon = NoMon
    /\ budget = MaxSteps
    /\ pump = NoPump
    /\ peers = NoPeers

NextExt == ExtWrite \/ Writable

SpecExt == InitExt /\ [][NextExt]_vars

----------------------------------------------------------------------------
(* The return of lws_write after lws_issue_raw_ext_access, as a function of *)
(* what that call reported *)

\* the calls: the buffer is the caller's (clean_buffer) or an extension's,
\* orig_len is the caller's length, len the length after the extensions (no
\* longer than orig_len in the caller's buffer, and not zero in an
\* extension's when orig_len is not), pre the header length of a server (2)
\* or client (6) frame, and n what lws_issue_raw_ext_access reported
AccessCalls ==
    {c \in [clean_buffer : BOOLEAN, orig_len : 0..MaxLen, len : 0..MaxLen,
            pre : {2, 6}, n : -1..(MaxLen + 6)] :
        /\ c.n <= c.len + c.pre
        /\ c.clean_buffer => c.len <= c.orig_len
        /\ (~c.clean_buffer /\ c.orig_len # 0) => c.len # 0}

\* lws_write from the return of lws_issue_raw_ext_access on
ReturnFromAccess ==
    /\ last.op = "access"
    /\ wsi' = [wsi EXCEPT !.ws.inside_frame =
                             ~(last.ret > 0 /\ last.ret = last.len)]
    /\ last' = [last EXCEPT !.op = "write", !.wpath = "send_raw",
                            !.wret = ReturnAfterAccess(last.ret, last.len - last.pre,
                                                       last.pre, last.ulen)]
    /\ UNCHANGED <<pt, mon, budget, pump, peers>>

InitAccess ==
    /\ \E c \in AccessCalls :
          /\ wsi = [NewWsi(IF c.pre = 6 THEN LWSCM_WS_CLIENT ELSE LWSCM_WS_SERVING,
                           LWSS_ESTABLISHED, SomeSize)
                      EXCEPT !.ws.clean_buffer = c.clean_buffer,
                             !.count_act_ext = IF c.clean_buffer THEN 0 ELSE 1]
          /\ last = [NoLast EXCEPT !.op = "access", !.lower = TRUE,
                                   !.new_frame = TRUE, !.ulen = c.orig_len,
                                   !.len = c.len + c.pre, !.pre = c.pre,
                                   !.ret = c.n]
    /\ pt = NewPt
    /\ mon = NoMon
    /\ budget = 0
    /\ pump = NoPump
    /\ peers = NoPeers

NextAccess == ReturnFromAccess

SpecAccess == InitAccess /\ [][NextAccess]_vars

----------------------------------------------------------------------------
(* Operations on the connections of one service thread: lws_write and the   *)
(* drain list of the thread *)

MaxDrainSteps == 4   \* calls of lws_write in a behaviour of SpecDrain

\* the names of the other connections, and of all connections of the thread
Peers == {"a", "b"}

Conns == {ThisWsi} \cup Peers

\* the connection named c
Conn(c) == IF c = ThisWsi THEN wsi ELSE peers[c]

\* Inside lws_write the name ThisWsi stands for the pointer wsi.  The list as
\* a call on the connection c reads and writes it: c and ThisWsi change names.
AsSeenBy(c, list) ==
    [i \in 1..Len(list) |-> IF list[i] = c THEN ThisWsi
                            ELSE IF list[i] = ThisWsi THEN c
                            ELSE list[i]]

\* the calls: a TEXT message, a CLOSE frame with the NO_FIN flag, and the
\* library's drain replay
DrainWriteArgs(k) ==
    {[buf_null |-> FALSE, ubuf |-> UserBytes(k, MaxLen), len |-> MaxLen, wp |-> wp] :
        wp \in {LWS_WRITE_TEXT, LWS_WRITE_CLOSE + LWS_WRITE_NO_FIN}}
    \cup {[buf_null |-> TRUE, ubuf |-> <<>>, len |-> 0, wp |-> LWS_WRITE_CONTINUATION]}

\* the connections: the one under study is established or waits for the
\* peer's CLOSE; the others are established; each has an active extension
DrainConfigs ==
    {[NewWsi(LWSCM_WS_SERVING, st, SomeSize) EXCEPT !.count_act_ext = 1] :
        st \in {LWSS_ESTABLISHED, LWSS_AWAITING_CLOSE_ACK}}

\* the answers of the extension to LWS_EXT_CB_PAYLOAD_TX: nothing changed, or
\* one byte of output in a buffer of its own with (n = 1) or without (n = 0)
\* more to come
DrainExtOutcomes(a) ==
    {PassThrough(a.ubuf, a.len)}
    \cup {[n |-> n, token |-> "ext", token_len |-> 1, out |-> ExtBytes(1, 1)] :
            n \in {0, 1}}

\* the transport takes all it is offered
TakesAll(ios) ==
    IF ios = {QuietIo} THEN ios
    ELSE {io \in ios : /\ io.do_send = 0 /\ io.malloc_ok
                        /\ io.send.errno = "0" /\ io.send.n > MaxPartial}

\* lws_write(wsi, buf, len, wp) on the connection named c
DrainWrite ==
    /\ budget > 0
    /\ \E c \in Conns :
       \E a \in DrainWriteArgs(1) :
       \E p \in {[pt EXCEPT !.tx_draining_ext_list = AsSeenBy(c, @)]} :
       \E pio \in {[DefaultIo(a) EXCEPT !.ext = e] : e \in DrainExtOutcomes(a)} :
       \E pr \in {WritePrep(Conn(c), p, a.buf_null, a.ubuf, a.len, a.wp, pio)} :
       \E rio \in TakesAll(IF pr.lower THEN RawIo(pr.w, Len(pr.framed))
                           ELSE {QuietIo}) :
       \E r \in {WriteSend(pr, [pio EXCEPT !.raw = rio])} :
          /\ wsi' = IF c = ThisWsi THEN r.w ELSE wsi
          /\ peers' = IF c = ThisWsi THEN peers ELSE [peers EXCEPT ![c] = r.w]
          /\ pt' = [r.pt EXCEPT !.tx_draining_ext_list = AsSeenBy(c, @)]
          /\ last' = [LastWrite(a, [pio EXCEPT !.raw = rio], pr, r) EXCEPT !.who = c]
          /\ budget' = budget - 1
          /\ UNCHANGED <<mon, pump>>

InitDrain ==
    /\ wsi \in DrainConfigs
    /\ peers = [c \in Peers |->
                  [NewWsi(LWSCM_WS_SERVING, LWSS_ESTABLISHED, SomeSize)
                      EXCEPT !.count_act_ext = 1]]
    /\ pt = NewPt
    /\ last = NoLast
    /\ mon = NoMon
    /\ budget = MaxDrainSteps
    /\ pump = NoPump

NextDrain == DrainWrite

SpecDrain == InitDrain /\ [][NextDrain]_vars

----------------------------------------------------------------------------
(* Operations on the file pump *)

MaxFileLen == 6      \* length of the file being served

PumpSizes ==
    {[tx_packet_size |-> 0, rx_buffer_size |-> 0, pt_serv_buf_size |-> 73],
     [tx_packet_size |-> 2, rx_buffer_size |-> 0, pt_serv_buf_size |-> 73]}

\* the requests: the whole file, one range, two ranges in file order, two
\* ranges of which the first ends at the end of the file, two adjacent ranges
RangeRequests ==
    {<<>>,
     <<<<1, 2>>>>,
     <<<<0, 1>>, <<3, 4>>>>,
     <<<<4, 5>>, <<0, 1>>>>,
     <<<<0, 2>>, <<3, 5>>>>}

\* "t/p"
ContentType == <<116, 47, 112>>

\* the connection when lws_serve_http_file has opened the file, parsed the
\* Range header and sent the response headers
ServeHttpFile(sz, filelen, ranges) ==
    [NewWsi(LWSCM_HTTP_SERVING, LWSS_HTTP_ISSUING_FILE, sz) EXCEPT
        !.http = [NewHttp EXCEPT
            !.filelen = filelen,
            !.fop_fd = [open |-> TRUE, pos |-> 0],
            !.multipart_content_type = ContentType,
            !.range = IF ranges = <<>> THEN @
                      ELSE [@ EXCEPT !.start = Head(ranges)[1],
                                     !.end = Head(ranges)[2],
                                     !.extent = filelen,
                                     !.count_ranges = Len(ranges),
                                     !.rest = Tail(ranges)]]]

QuietPumpIo ==
    [choked |-> FALSE, raw |-> QuietIo, rd |-> "full", seek_ok |-> TRUE, cb |-> 0]

\* the answers the environment can give during one pass: the choke probe, and
\* for a pass that goes on, the transport, the file and the completion callback
PumpIo(w, p) ==
    {[QuietPumpIo EXCEPT !.choked = TRUE]}
    \cup (IF w.trunc_len # 0
          THEN {[QuietPumpIo EXCEPT !.raw = x] : x \in RawIo(w, w.trunc_len)}
          ELSE UNION {
                 UNION {{[QuietPumpIo EXCEPT !.rd = rd, !.seek_ok = sk,
                                             !.cb = cb, !.raw = x] :
                            cb \in {0, -1},
                            x \in (IF buf.path = "read" /\ buf.n0 # 0
                                   THEN RawIo(w, buf.n) ELSE {QuietIo})} :
                        buf \in {PumpRead(w, [QuietPumpIo EXCEPT !.rd = rd,
                                                                 !.seek_ok = sk])}} :
                 rd \in ReadOutcomes, sk \in BOOLEAN})

\* The event loop finds the connection writable while it owes file bytes and
\* calls lws_serve_http_file_fragment; back-to-back detection is reset by the
\* dispatch.
ServeFileFragment ==
    /\ pump.pc = "idle"
    /\ wsi.http.fop_fd.open
    /\ wsi' = [wsi EXCEPT !.could_have_pending = FALSE, !.pollout = FALSE]
    /\ pump' = [pump EXCEPT !.pc = "loop", !.returned = FALSE, !.ret = 0,
                            !.path = "none", !.writes = 0]
    /\ last' = [NoLast EXCEPT !.op = "writable"]
    /\ UNCHANGED <<pt, mon, budget, peers>>

\* one pass of the loop of lws_serve_http_file_fragment; the function returns
\* in the pass or stays in its loop
PumpStep ==
    /\ pump.pc = "loop"
    /\ \E io \in PumpIo(wsi, pt) :
       \E r \in {PumpPass(wsi, pt, io)} :
         LET replay == r.path \in {"replayed", "replay_failed"}
         IN /\ wsi' = r.w
            /\ pt' = r.pt
            /\ pump' = [pump EXCEPT
                          !.pc = IF r.returned THEN "idle" ELSE "loop",
                          !.returned = r.returned,
                          !.ret = r.ret,
                          !.path = r.path,
                          !.handed = IF r.wrote /\ r.m >= 0 THEN @ \o r.data ELSE @,
                          !.completions = IF r.completion THEN @ + 1 ELSE @,
                          !.writes = IF r.wrote /\ @ < 2 THEN @ + 1 ELSE @]
            /\ last' = IF r.wrote THEN LastRaw("pump_write", TRUE, r.data, r.raw)
                       ELSE IF replay
                       THEN LastRaw("pump_replay", FALSE, r.data, r.raw)
                       ELSE [NoLast EXCEPT !.op = "pump"]
            /\ mon' = IF r.wrote THEN MonStep(mon, wsi, TRUE, r.data, r.raw)
                      ELSE IF replay THEN MonStep(mon, wsi, FALSE, r.data, r.raw)
                      ELSE mon
    /\ UNCHANGED <<budget, peers>>

InitPump ==
    /\ \E sz \in PumpSizes, ranges \in RangeRequests :
          /\ wsi = ServeHttpFile(sz, MaxFileLen, ranges)
          /\ pump = [NoPump EXCEPT !.request = ranges]
    /\ pt = NewPt
    /\ last = NoLast
    /\ mon = NoMon
    /\ budget = 0
    /\ peers = NoPeers

NextPump == ServeFileFragment \/ PumpStep

SpecPump == InitPump /\ [][NextPump]_vars

----------------------------------------------------------------------------
(* Claims about the raw issuer, checked under SpecRaw *)

\* the bytes the transport took in the last call, as the transport saw it
Accepted(l) == IF l.tx = LWS_SSL_CAPABLE_MORE_SERVICE THEN 0 ELSE l.tx

\* C1: truncation priority.  Once the transport has taken only k of the n bytes
\* of a call, what is offered next is bytes [k..n) of that call, in order, ahead
\* of any byte of a later call; and while a truncation is pending a call with a
\* new non-empty buffer fails, and no call with a new buffer offers a byte.
TruncationPriority ==
    [][ /\ (mon.owed # <<>> /\ last'.offer # <<>>)
              => IsPrefix(last'.offer, mon.owed)
        /\ (/\ last.fresh /\ last.ret >= 0 /\ last.attempted
            /\ last.tx # LWS_SSL_CAPABLE_ERROR /\ Accepted(last) < last.len
            /\ last'.offer # <<>>)
              => IsPrefix(last'.offer, Drop(last.data, Accepted(last)))
        /\ (wsi.trunc_len # 0 /\ last'.fresh)
              => /\ last'.offer = <<>>
                 /\ ~last'.attempted
                 /\ (last'.len > 0 => last'.ret < 0)
      ]_vars

\* C1 witness: a rate-capped replay of a pending truncation, partly taken
TruncationPriorityWitness ==
    /\ last.op = "writable" /\ ~last.fresh
    /\ last.attempted /\ last.acc > 0
    /\ Len(last.offer) < last.len
    /\ wsi.trunc_len > 0

\* C2 as claimed: whenever no call has failed and the truncation buffer is
\* empty, the bytes taken by the transport are exactly the bytes of the buffers
\* handed to lws_issue_raw, in order.
PartialSendTransparencyAsClaimed ==
    (~mon.rejected /\ wsi.trunc_len = 0)
        => (mon.ok /\ mon.owed = <<>> /\ ~mon.dropped)

\* C2 (amended): the same, for calls made while the connection is not in
\* LWSS_FLUSHING_SEND_BEFORE_CLOSE.
PartialSendTransparency ==
    (~mon.rejected /\ ~mon.flush_write /\ wsi.trunc_len = 0)
        => (mon.ok /\ mon.owed = <<>> /\ ~mon.dropped)

\* C2 witness: a truncated send was replayed to the end with no call failing
PartialSendTransparencyWitness ==
    /\ last.op = "writable" /\ ~last.fresh /\ last.attempted
    /\ last.acc = last.len /\ last.len > 0
    /\ wsi.trunc_len = 0
    /\ ~mon.rejected /\ ~mon.flush_write

BackToBackAsClaimed ==
    [][ (last.op = "issue" /\ last'.op = "issue")
        => (last'.ret < 0 /\ wsi.could_have_pending) ]_vars

\* C4 (amended): could_have_pending is set by every transport attempt and
\* cleared only by the writable dispatch; a call made while it is set fails
\* and offers nothing to the transport.
BackToBack ==
    [][ /\ (last'.op = "issue" /\ wsi.could_have_pending)
              => (last'.ret < 0 /\ ~last'.attempted /\ last'.offer = <<>>)
        /\ last'.attempted => wsi'.could_have_pending
        /\ (wsi.could_have_pending /\ ~wsi'.could_have_pending)
              => last'.op = "writable"
      ]_vars

\* C4 witness: a second call right after one that reached the transport
BackToBackWitness ==
    /\ last.op = "issue" /\ last.len > 0
    /\ last.ret < 0 /\ ~last.attempted
    /\ wsi.could_have_pending
    /\ wsi.trunc_len = 0 /\ wsi.state = LWSS_HTTP

----------------------------------------------------------------------------
(* Claims about lws_write, checked under Spec, SpecHdr and SpecExt *)

\* the lower layer took charge of the whole framed buffer of the last write
Handled(l) == l.op = "write" /\ l.lower /\ l.ret = l.len

\* C5 as claimed: a write of any opcode class whose whole framed buffer was
\* handled by the lower layer (sent, or absorbed into the truncation buffer)
\* returns len, the length of the user payload.
WriteReturnsLen ==
    Handled(last) => last.wret = last.ulen

\* the last write failed: it was refused before framing, or the lower layer
\* returned an error
Failed(l) ==
    /\ l.op = "write"
    /\ \/ l.wpath \in {"parent_refused", "negative_len", "ext_error",
                       "null_buf", "unknown_opc", "no_nonce"}
       \/ l.lower /\ l.ret < 0

\* C6 as claimed: every failing write returns a negative value, and a write
\* carried by the parent returns len only when the parent callback returned 0.
FailingWriteNegative ==
    /\ Failed(last) => last.wret < 0
    /\ (last.op = "write" /\ wsi.parent_carries_io /\ last.parent_cb # 0)
          => last.wret < 0
    /\ (last.op = "write" /\ wsi.parent_carries_io /\ last.wret = last.ulen
          /\ last.ulen >= 0)
          => last.parent_cb = 0

\* the header of a CLOSE frame with a payload of len < 126 bytes
CloseHeader(len, masked) == <<128 + 8, (IF masked THEN 128 ELSE 0) + len>>

StateGateCloseWitness ==
    /\ last.op = "write" /\ last.wp_in = LWS_WRITE_CLOSE /\ last.lower
    /\ last.attempted /\ last.offer = last.data /\ last.len = last.ulen + 2
    /\ wsi.state = LWSS_RETURNED_CLOSE_ALREADY

\* L as big-endian bytes
RECURSIVE BigEndian(_, _)
BigEndian(L, k) ==
    IF k = 0 THEN <<>> ELSE Append(BigEndian(L \div 256, k - 1), L % 256)

\* the RFC 6455 header for opcode class c, payload length L
Rfc6455Header(c, no_fin, L, masked) ==
    LET opcode == CASE c = LWS_WRITE_CONTINUATION -> 0
                    [] c = LWS_WRITE_TEXT -> 1
                    [] c = LWS_WRITE_BINARY -> 2
                    [] c = LWS_WRITE_CLOSE -> 8
                    [] c = LWS_WRITE_PING -> 9
                    [] c = LWS_WRITE_PONG -> 10
        m == IF masked THEN 128 ELSE 0
    IN <<(IF no_fin THEN 0 ELSE 128) + opcode>>
       \o (IF L < 126 THEN <<m + L>>
           ELSE IF L < 65536 THEN <<m + 126>> \o BigEndian(L, 2)
           ELSE <<m + 127>> \o BigEndian(L, 8))

Rfc6455Pre(L, masked) ==
    (IF L < 126 THEN 2 ELSE IF L < 65536 THEN 4 ELSE 10) + (IF masked THEN 4 ELSE 0)

\* C8: WS header encoding.  The header synthesised for a payload of L bytes,
\* and the buffer a write that starts a frame passes down, begin with byte 0
\* = (0x80 unless NO_FIN is in wp) | opcode and byte 1 = MASK bit (set iff
\* the connection is a client) | length field, where the length is L itself
\* below 126, 126 and 2 big-endian bytes below 65536, else 127 and 8
\* big-endian bytes; pre is 2, 4 or 10, plus 4 iff masked.
HeaderEncoding ==
    LET masked == wsi.mode = LWSCM_WS_CLIENT
        no_fin == (last.wp \div 64) % 2 = 1
    IN /\ last.op = "header"
          => /\ last.wret = 0
             /\ last.data = Rfc6455Header(last.wp % 16, no_fin, last.ulen, masked)
             /\ last.pre = Rfc6455Pre(last.ulen, masked)
       /\ (last.op = "write" /\ last.new_frame)
          => /\ IsPrefix(Rfc6455Header(last.wp % 16, no_fin, Len(last.payload),
                                       masked), last.data)
             /\ last.pre = Rfc6455Pre(Len(last.payload), masked)
             /\ last.len = last.pre + Len(last.payload)

\* C8 witness: the 10-byte header of a masked 70000-byte binary frame
HeaderEncodingWitness ==
    /\ last.op = "header" /\ last.ulen = 70000
    /\ wsi.mode = LWSCM_WS_CLIENT
    /\ last.data = <<130, 255, 0, 0, 0, 0, 0, 1, 17, 112>>
    /\ last.pre = 14

\* C9 as claimed: on a client connection a write that starts a frame takes a
\* fresh nonce and resets mask_idx, and the payload bytes the transport
\* takes, in that write and in every later write made while inside_frame
\* is set, are the payload XOR the nonce, indexed from the start of the
\* frame; a nonce read of fewer than 4 bytes fails the write.
ClientMasking ==
    [][ (/\ last'.op = "write" /\ wsi.mode = LWSCM_WS_CLIENT
         /\ ~IsHttpClass(last'.wp % 32) /\ last'.ulen >= 0)
        => /\ last'.new_frame
                 => /\ wsi'.ws.mask = last'.nonce
                    /\ Drop(last'.data, last'.pre - 4)
                          = last'.nonce \o MaskPayload(last'.payload, last'.nonce, 0)
           /\ (last'.lower /\ ~last'.new_frame /\ last'.acc > 0)
                 => /\ wsi'.ws.mask = wsi.ws.mask
                    /\ IsPrefix(Take(last'.offer, last'.acc),
                                MaskPayload(last'.payload, wsi.ws.mask,
                                            wsi.ws.mask_idx))
           /\ (~wsi.ws.inside_frame /\ last'.rng_n # 4 /\ last'.wpath # "binned"
                 /\ ~last'.buf_null)
                 => (last'.wret < 0 /\ ~last'.lower)
      ]_vars

\* C10: extension drain FIN ordering.  With no stashed write pending, a
\* frame framed for a TEXT or BINARY write after which the extension has more
\* pending carries that opcode with FIN = 0, and the write is stashed in
\* tx_draining_stashed_wp with the connection enrolled on the drain list.
\* Every write made while draining in LWSS_ESTABLISHED takes the connection
\* off the drain list and has its wp overridden to CONTINUATION with the
\* flags 0xc0 of the stashed wp: its frame carries opcode CONTINUATION, with
\* FIN = 0 and the same flags stashed again if more is pending, else with
\* FIN = 1 iff NO_FIN is absent from the stashed flags.
DrainFinOrdering ==
    [][ (last'.op = "write" /\ ~wsi.ws.stashed_write_pending) =>
        LET replay == wsi.ws.tx_draining_ext /\ wsi.state = LWSS_ESTABLISHED
            more == wsi'.ws.tx_draining_ext
            stashed == wsi.ws.tx_draining_stashed_wp
            flags == (stashed \div 64) * 64
            no_fin == (stashed \div 64) % 2 = 1
            byte0 == last'.data[1]
            class == last'.wp_in % 32
        IN /\ (last'.new_frame /\ ~replay /\ more
                 /\ class \in {LWS_WRITE_TEXT, LWS_WRITE_BINARY})
                 => /\ byte0 = (IF class = LWS_WRITE_TEXT THEN 1 ELSE 2)
                    /\ wsi'.ws.tx_draining_stashed_wp = last'.wp_in
                    /\ pt'.tx_draining_ext_list = <<ThisWsi>> \o pt.tx_draining_ext_list
           /\ replay
                 => /\ more \/ \A i \in 1..Len(pt'.tx_draining_ext_list) :
                                   pt'.tx_draining_ext_list[i] # ThisWsi
                    /\ Len(pt'.tx_draining_ext_list) <= Len(pt.tx_draining_ext_list)
           /\ (replay /\ last'.new_frame)
                 => /\ last'.wp % 32 = LWS_WRITE_CONTINUATION
                    /\ (last'.wp \div 128) = (stashed \div 128)
                    /\ byte0 % 128 = 0
                    /\ more => /\ byte0 = 0
                               /\ (wsi'.ws.tx_draining_stashed_wp \div 64) * 64 = flags
                    /\ ~more => (byte0 = 128 <=> ~no_fin)
      ]_vars

\* C10 witness: the third and last frame of a drained TEXT message, FIN set
DrainFinOrderingWitness ==
    /\ last.op = "write" /\ last.new_frame /\ Handled(last)
    /\ mon.chain >= 3
    /\ ~wsi.ws.tx_draining_ext
    /\ last.data[1] = 128
    /\ pt.tx_draining_ext_list = <<>>

\* C14: truncation buffer invariant.  In every state reached by lws_issue_raw
\* calls and writable dispatches, trunc_len has not wrapped below zero, a
\* non-zero trunc_len comes with an allocated trunc_alloc and
\* trunc_offset + trunc_len <= trunc_alloc_len, the pending bytes lying inside
\* the allocation, and the bytes a replay subtracted were no more than the
\* trunc_len it was called with.
TruncInvariant ==
    /\ wsi.trunc_len >= 0
    /\ wsi.trunc_offset >= 0
    /\ wsi.trunc_len # 0
          => /\ wsi.trunc_alloc # NULL
             /\ wsi.trunc_offset + wsi.trunc_len <= wsi.trunc_alloc_len
             /\ wsi.trunc_offset + wsi.trunc_len <= Len(wsi.trunc_alloc)
    /\ (last.op = "writable" /\ ~last.fresh) => last.acc <= last.len

\* C14 witness: a truncation in an allocation left by a longer one, partly
\* replayed
TruncInvariantWitness ==
    /\ last.op = "writable" /\ last.acc > 0
    /\ wsi.trunc_len > 0 /\ wsi.trunc_offset > 0
    /\ wsi.trunc_offset + wsi.trunc_len < wsi.trunc_alloc_len

\* C15 as claimed: a replay of a pending truncation of which the transport
\* takes n bytes (none on MORE_SERVICE) adds n to trunc_offset and takes n
\* from trunc_len; it returns n if bytes remain, the offered length if the
\* buffer has drained, or a negative value if it has drained in
\* LWSS_FLUSHING_SEND_BEFORE_CLOSE; in each of these cases a writable
\* callback has been requested.
TruncationReplay ==
    [][ (/\ last'.op = "writable" /\ ~last'.fresh
         /\ last'.attempted /\ last'.tx # LWS_SSL_CAPABLE_ERROR)
        => LET n == Accepted(last') IN
           /\ wsi'.trunc_offset = wsi.trunc_offset + n
           /\ wsi'.trunc_len = wsi.trunc_len - n
           /\ wsi'.trunc_len # 0 => last'.ret = n
           /\ wsi'.trunc_len = 0
                 => IF wsi.state = LWSS_FLUSHING_SEND_BEFORE_CLOSE
                    THEN last'.ret < 0
                    ELSE last'.ret = last'.len
           /\ last'.rearm /\ wsi'.pollout
      ]_vars

\* the larger and the smaller of two numbers
Max(a, b) == IF a > b THEN a ELSE b

Min(a, b) == IF a < b THEN a ELSE b

\* a new buffer of which the transport did not take all: what is left is in
\* the truncation buffer when the call returns
RemainderAbsorbed ==
    (/\ last.op = "issue" /\ last.attempted
     /\ last.tx # LWS_SSL_CAPABLE_ERROR /\ ~last.malloc_failed
     /\ Accepted(last) < last.len)
    => /\ wsi.trunc_len = last.len - Accepted(last)
       /\ ReadMem(wsi.trunc_alloc, wsi.trunc_offset, wsi.trunc_len)
             = Drop(last.data, Accepted(last))

ControlFramesBypass ==
    [][ (/\ last'.op = "write"
         /\ last'.wp_in % 32 \in {LWS_WRITE_PING, LWS_WRITE_PONG, LWS_WRITE_CLOSE})
        => /\ ~(last'.ext_called /\ wsi.count_act_ext > 0)
           /\ last'.lower
                 => /\ last'.new_frame
                    /\ last'.data[1] % 16
                          = (IF last'.wp_in % 32 = LWS_WRITE_PING THEN LWSWSOPC_PING
                             ELSE IF last'.wp_in % 32 = LWS_WRITE_PONG
                             THEN LWSWSOPC_PONG ELSE LWSWSOPC_CLOSE)
      ]_vars

DataDispatch(l) ==
    /\ l.op = "write" /\ l.lower
    /\ l.wp % 32 \in {LWS_WRITE_TEXT, LWS_WRITE_BINARY, LWS_WRITE_CONTINUATION}

\* C20 as claimed: inside_frame is set when a data frame is dispatched to the
\* lower layer and cleared exactly when the lower layer reports full
\* consumption; a write entered while it is set hands its payload to the
\* lower layer with no header (pre = 0) and without the extension chain; and
\* a frame is left open only after the lower layer took its header, so that
\* the writes that follow without a header continue a frame whose header went
\* out once.
InsideFrameLifecycle ==
    [][ /\ DataDispatch(last')
           => /\ wsi'.ws.inside_frame = ~(last'.ret > 0 /\ last'.ret = last'.len)
              /\ wsi.ws.inside_frame
                    => /\ last'.pre = 0 /\ ~last'.new_frame /\ ~last'.ext_called
                       /\ last'.data = last'.ubuf
              /\ (last'.new_frame /\ wsi'.ws.inside_frame)
                    => last'.ret >= last'.pre
        /\ (last'.op # "write" \/ ~DataDispatch(last'))
           => wsi'.ws.inside_frame = wsi.ws.inside_frame
      ]_vars

\* C13 as claimed: a call of lws_write or lws_issue_raw made while
\* socket_is_permanently_unusable is set, or in state
\* LWSS_FLUSHING_SEND_BEFORE_CLOSE or LWSS_AWAITING_CLOSE_ACK, offers no byte
\* to the transport.
CancellationTolerance ==
    [][ (/\ last'.op \in {"write", "issue"}
         /\ \/ wsi.socket_is_permanently_unusable
            \/ wsi.state \in {LWSS_FLUSHING_SEND_BEFORE_CLOSE,
                              LWSS_AWAITING_CLOSE_ACK})
        => (~last'.attempted /\ last'.offer = <<>>) ]_vars

----------------------------------------------------------------------------
(* Claims about the file pump, checked under SpecPump *)

IsFileByte(b) == b >= 128

\* the ranges a request asks for: its byte ranges, or the whole file
RangesOf(request, filelen) ==
    IF request = <<>> THEN <<<<0, filelen - 1>>>> ELSE request

\* the file bytes of the ranges, in request order
RECURSIVE RangeBytes(_)
RangeBytes(ranges) ==
    IF ranges = <<>> THEN <<>>
    ELSE FileBytes(Head(ranges)[1], Head(ranges)[2] - Head(ranges)[1] + 1)
         \o RangeBytes(Tail(ranges))

\* C11 as claimed: the pump returns 1 only when the file bytes of every range
\* asked for (the whole file if none) have been handed to lws_write and
\* trunc_len is 0; on every completion the state is LWSS_HTTP, the file is
\* closed and HTTP_FILE_COMPLETION has been invoked exactly once; on every
\* return of -1 the file is closed.
PumpCompletion ==
    /\ (pump.returned /\ pump.ret = 1)
          => /\ SelectSeq(pump.handed, IsFileByte)
                   = RangeBytes(RangesOf(pump.request, wsi.http.filelen))
             /\ wsi.trunc_len = 0
    /\ (pump.returned /\ pump.path = "completed")
          => /\ wsi.state = LWSS_HTTP
             /\ ~wsi.http.fop_fd.open
             /\ pump.completions = 1
    /\ (pump.returned /\ pump.ret = -1) => ~wsi.http.fop_fd.open

\* the multipart body for the ranges, without the trailing boundary
RECURSIVE Parts(_, _, _)
Parts(ranges, ct, extent) ==
    IF ranges = <<>> THEN <<>>
    ELSE PartHeader(ct, Head(ranges)[1], Head(ranges)[2], extent)
         \o FileBytes(Head(ranges)[1], Head(ranges)[2] - Head(ranges)[1] + 1)
         \o Parts(Tail(ranges), ct, extent)

\* C12 as claimed: for a request with two or more ranges, what the pump
\* hands to lws_write is, for each range in request order, the part header
\* followed by the file bytes start..end, then the trailing boundary
\* "_lws\r\n"; completion is not signalled before all of it has been handed
\* over; inside a range the file position and filepos agree and
\* filepos + budget = end + 1.
MultiRange ==
    Len(pump.request) >= 2 =>
        LET expected == Parts(pump.request, wsi.http.multipart_content_type,
                              wsi.http.filelen) \o Boundary
        IN /\ IsPrefix(pump.handed, expected)
           /\ pump.completions > 0 => pump.handed = expected
           /\ (wsi.http.range.inside /\ wsi.http.fop_fd.open)
                 => /\ wsi.http.fop_fd.pos = wsi.http.filepos
                    /\ wsi.http.filepos + wsi.http.range.budget
                          = wsi.http.range.end + 1

\* C21 as claimed: a pass of the loop of lws_serve_http_file_fragment that
\* returns, returns -1, 0 or 1, and a pass that does not return has drained
\* bytes of the truncation buffer or has increased filepos, whatever the file
\* read stored (no byte at all while filepos < filelen included), so that the
\* loop ends.
PumpTermination ==
    [][ pump.pc = "loop"
        => /\ pump'.returned => pump'.ret \in {-1, 0, 1}
           /\ ~pump'.returned
                 => \/ wsi'.trunc_len < wsi.trunc_len
                    \/ wsi'.http.filepos > wsi.http.filepos
      ]_vars

\* C22 as claimed: within one invocation of lws_serve_http_file_fragment no
\* pass reaches the transport through lws_issue_raw while could_have_pending
\* is set, and an invocation returns -1 only after a file read, a seek, the
\* completion callback, the transport or an allocation reported an error.
PumpBackToBack ==
    [][ pump.pc = "loop"
        => /\ last'.attempted => ~wsi.could_have_pending
           /\ (pump'.returned /\ pump'.ret = -1)
                 => \/ pump'.path \in {"seek_failed", "read_failed", "completed"}
                    \/ last'.path \in {"tx_error", "no_mem", "ext_error"}
      ]_vars

----------------------------------------------------------------------------
(* Claims about the drain list, checked under SpecDrain *)

\* the list without the connection c
Others(list, c) == SelectSeq(list, LAMBDA x : x # c)

\* the connections a list holds
Members(list) == {list[i] : i \in 1..Len(list)}

\* C23 as claimed: after every write on a connection of the service thread, a
\* connection is in tx_draining_ext_list iff its tx_draining_ext flag is set,
\* no connection is in the list twice, and the write has left the other
\* connections in the list as they were, in the same order.
DrainListConsistency ==
    [][ last'.op = "write"
        => LET list == pt'.tx_draining_ext_list
               flag(c) == IF c = ThisWsi THEN wsi'.ws.tx_draining_ext
                          ELSE peers'[c].ws.tx_draining_ext
           IN /\ \A c \in Conns : c \in Members(list) <=> flag(c)
              /\ \A i, j \in 1..Len(list) : list[i] = list[j] => i = j
              /\ Others(list, last'.who) = Others(pt.tx_draining_ext_list, last'.who)
      ]_vars


----------------------------------------------------------------------------
(* Claims about the truncation drain, checked under SpecLive *)

\* a send failed for good: the transport reported an error, or the extension
\* that sends for itself did
FatalError == last.path \in {"tx_error", "ext_error"}

\* after a call of lws_issue_raw that returned a non-negative value and left
\* bytes in the truncation buffer, a request for the writable callback stands
RearmPending ==
    (last.op \in {"issue", "writable"} /\ last.ret >= 0 /\ wsi.trunc_len > 0)
        => wsi.pollout

\* C24: truncation drain liveness.  In a behaviour without a fatal send
\* error, every lws_issue_raw call that returns a non-negative value and
\* leaves trunc_len > 0 leaves a writable rearm requested, and, the event loop
\* dispatching every rearm and the transport taking a byte now and then,
\* a truncation buffer that holds bytes is eventually drained to trunc_len = 0.
TruncationDrainLiveness ==
    \/ <>FatalError
    \/ /\ []RearmPending
       /\ (wsi.trunc_len > 0) ~> (wsi.trunc_len = 0)

\* a truncation was drained to nothing by a replay that followed an earlier,
\* partial replay of it (the offset had already moved), and the rearm stands
TruncationDrainWitness ==
    /\ last.op = "writable"
    /\ last.path = "replay_done"
    /\ wsi.trunc_len = 0
    /\ wsi.trunc_offset > last.len
    /\ wsi.pollout
    /\ ~mon.rejected

============================================================================
